---- MODULE Spec2Model ----
(***************************************************************************)
(* Model of src/slider.py: the impact-scoring core of the glycerol         *)
(* conversion calculator (smooth_transition, calculate_parameter_impact,   *)
(* calculate_total_conversion over the OPTIMAL_RANGES table).              *)
(*                                                                         *)
(* Numbers.  The program computes in IEEE doubles; the model computes in   *)
(* 32-bit fixed point:                                                     *)
(*   - parameter values, min, max, optimal are in hundredths,             *)
(*   - sensitivities are in millionths                        (SensScale), *)
(*   - every real result (distance, effect, impact, conversion) is in      *)
(*     ten-thousandths                                        (S = 10000). *)
(* Divisions round toward zero and products that leave the 32-bit range    *)
(* saturate, as a double that leaves its range becomes inf.                *)
(***************************************************************************)
EXTENDS Integers, Sequences, FiniteSets, TLC

S == 10000
SensScale == 1000000
MaxInt == 2147483647

\* ------------------------------------------------------------------ bounds
\* Parameter sets of calculate_total_conversion place each value at
\* optimal + l * range/2 for a level l in -MaxLevel..MaxLevel.
MaxLevel == 2
\* Inputs of calculate_parameter_impact lie at optimal + k * range/4 for
\* k in -MaxStep..MaxStep.
MaxStep == 5

\* ------------------------------------------------------- the spec table
Names == {"t2", "t3", "t4", "t1", "t5", "lhsv", "h2gly_ratio", "liquid_feed",
          "hydrogen_flow", "top_pressure", "bottom_pressure", "feed_ph"}

Info(mn, mx, opt, w, sens, base) ==
    [min |-> mn, max |-> mx, optimal |-> opt, weight |-> w,
     sensitivity |-> sens, base_impact |-> base]

OPTIMAL_RANGES_TABLE ==
    [t2              |-> Info(19500, 20500, 20000, 27, 217985, 30),
     t3              |-> Info(19500, 20500, 20000, 25, 136957, 25),
     t4              |-> Info(19500, 20500, 20000, 40, 181967, 25),
     t1              |-> Info(19000, 20000, 19500, 10,  69769, 10),
     t5              |-> Info(19000, 20000, 19500,  5,   3058, 10),
     lhsv            |-> Info(   50,    70,    60,  5,  16678,  5),
     h2gly_ratio     |-> Info(  600,   700,   650,  5,   4925,  5),
     liquid_feed     |-> Info( 5000, 15000, 10000,  5,     73,  5),
     hydrogen_flow   |-> Info(30000, 60000, 45000,  5,     58,  5),
     top_pressure    |-> Info( 2000,  4000,  3000,  5,   3176,  5),
     bottom_pressure |-> Info( 1500,  3500,  2500,  5,   1230,  5),
     feed_ph         |-> Info(  600,   800,   700,  5,  10348,  5)]

\* ------------------------------------------------- fixed-point arithmetic
Abs(x) == IF x < 0 THEN -x ELSE x
Min2(a, b) == IF a <= b THEN a ELSE b
Max2(a, b) == IF a >= b THEN a ELSE b

\* a * b / d for d > 0, rounded toward zero; the magnitude saturates at
\* MaxInt when the product overflows.
MulDiv(a, b, d) ==
    LET sign == IF (a < 0) = (b < 0) THEN 1 ELSE -1
        mag  == IF a = 0 \/ b = 0 THEN 0
                ELSE IF Abs(a) > MaxInt \div Abs(b) THEN MaxInt
                ELSE (Abs(a) * Abs(b)) \div d
    IN  sign * mag

\* exp(f/S) * S for 0 <= f < S: Taylor series, every term non-negative.
ExpFrac(f) ==
    LET t2 == (f * f) \div S
        t3 == (t2 * f) \div S
        t4 == (t3 * f) \div S
        t5 == (t4 * f) \div S
        t6 == (t5 * f) \div S
    IN  S + f + (t2 \div 2) + (t3 \div 6) + (t4 \div 24) + (t5 \div 120)
          + (t6 \div 720)

\* exp(-1) * S, rounded down.
ExpMinus1 == 3678

\* exp(-k) * S for a natural k.
RECURSIVE ExpMinusInt(_)
ExpMinusInt(k) ==
    IF k = 0 THEN S
    ELSE IF k >= 10 THEN 0
    ELSE (ExpMinusInt(k - 1) * ExpMinus1) \div S

\* exp(-z/S) * S for z >= 0.
ExpMinus(z) ==
    IF z >= 10 * S THEN 0
    ELSE (ExpMinusInt(z \div S) * ((S * S) \div ExpFrac(z % S))) \div S

\* scipy.special.expit: 1 / (1 + exp(-a)), argument and result scaled by S.
expit(a) ==
    LET e == ExpMinus(Abs(a))
        low == (e * S) \div (S + e)
    IN  IF a <= 0 THEN low ELSE S - low

\* --------------------------------------------------------------- the code
\* smooth_transition with the sign of the exponent lost.
smooth_transition_rising(x, center, sensitivity) ==
    LET d == x - center
        m == MulDiv(Abs(d), sensitivity, 1000)
    IN  expit(IF d >= 0 THEN m ELSE -m)

\* smooth_transition(x, center, sensitivity): x and center scaled by S, the
\* sensitivity argument (the caller's 1/sensitivity) scaled by 1000.
smooth_transition(x, center, sensitivity) ==
    LET d == x - center
        m == MulDiv(Abs(d), sensitivity, 1000)
    IN  expit(IF d >= 0 THEN -m ELSE m)

range_size(param_info) == param_info.max - param_info.min

\* The distance measured from min instead of optimal.
normalized_distance_from_min(value, param_info) ==
    MulDiv(Abs(value - param_info.min), S, range_size(param_info))

normalized_distance(value, param_info) ==
    MulDiv(Abs(value - param_info.optimal), S, range_size(param_info))

\* The sensitivity passed on as it is, scaled by 1000.
plain_sensitivity(param_info) == (param_info.sensitivity * 1000) \div SensScale

\* 1/sensitivity, scaled by 1000.
inverse_sensitivity(param_info) == (1000 * SensScale) \div param_info.sensitivity

base_effect(value, param_info) ==
    smooth_transition(normalized_distance(value, param_info), 0,
                      inverse_sensitivity(param_info))

\* The two comparisons made inclusive.
outside_range_inclusive(value, param_info) ==
    value <= param_info.min \/ value >= param_info.max

outside_range(value, param_info) ==
    value < param_info.min \/ value > param_info.max

\* The excess without its cap at 1.
excess_uncapped(value, param_info) ==
    MulDiv(Abs(value - param_info.optimal), S, range_size(param_info))

excess(value, param_info) ==
    Min2(MulDiv(Abs(value - param_info.optimal), S, range_size(param_info)), S)

\* 1 - 2 * excess
penalty_factor_tenfold(value, param_info) == S - 2 * excess(value, param_info)

\* 1 - 0.2 * excess
penalty_factor(value, param_info) == S - (2 * excess(value, param_info)) \div 10

calculate_parameter_impact(value, param_info) ==
    LET impact == param_info.base_impact * base_effect(value, param_info)
    IN  IF outside_range(value, param_info)
        THEN MulDiv(impact, penalty_factor(value, param_info), S)
        ELSE impact

\* The derived parameters of lines 113-116 (computed, never used).
pressure_diff(params) == params["top_pressure"] - params["bottom_pressure"]
temps(params) ==
    <<params["t1"], params["t2"], params["t3"], params["t4"], params["t5"]>>
RECURSIVE SeqSum(_)
SeqSum(s) == IF s = <<>> THEN 0 ELSE Head(s) + SeqSum(Tail(s))
avg_temperature(params) == SeqSum(temps(params)) \div Len(temps(params))
temp_range(params) ==
    LET t == temps(params)
        hi == CHOOSE x \in {t[i] : i \in 1..5} : \A i \in 1..5 : t[i] <= x
        lo == CHOOSE x \in {t[i] : i \in 1..5} : \A i \in 1..5 : t[i] >= x
    IN  hi - lo

\* The temperature impacts computed from the average temperature.
impacts_of_average(params, ranges) ==
    [name \in DOMAIN params |->
        IF name \in {"t1", "t2", "t3", "t4", "t5"}
        THEN calculate_parameter_impact(
                 params[name] + avg_temperature(params) - ranges[name].optimal,
                 ranges[name])
        ELSE calculate_parameter_impact(params[name], ranges[name])]

\* impacts = {name: calculate_parameter_impact(value, OPTIMAL_RANGES[name])
\*            for name, value in params.items()}
impacts_of(params, ranges) ==
    [name \in DOMAIN params |->
        calculate_parameter_impact(params[name], ranges[name])]

RECURSIVE SumOver(_, _)
SumOver(f, names) ==
    IF names = {} THEN 0
    ELSE LET n == CHOOSE x \in names : TRUE
         IN  f[n] + SumOver(f, names \ {n})

\* sum(impacts.values())
sum_values(f) == SumOver(f, DOMAIN f)

\* np.clip
clip(x, lo, hi) == Max2(lo, Min2(x, hi))

base_conversion == 60 * S

\* The subscripts params['...'] of lines 113-114, in evaluation order.
Subscripted ==
    <<"top_pressure", "bottom_pressure", "t1", "t2", "t3", "t4", "t5">>

\* The first subscript that raises KeyError, 0 when none does.
FirstMissing(params) ==
    IF \A i \in 1..Len(Subscripted) : Subscripted[i] \in DOMAIN params THEN 0
    ELSE CHOOSE i \in 1..Len(Subscripted) :
            /\ Subscripted[i] \notin DOMAIN params
            /\ \A j \in 1..(i - 1) : Subscripted[j] \in DOMAIN params

\* The conversion without np.clip.
final_conversion_unclipped(total_impact) == base_conversion + total_impact

final_conversion(total_impact) == clip(base_conversion + total_impact, 0, 100 * S)

\* The outcome of one call: a KeyError or the returned pair.
calculate_total_conversion(params, ranges) ==
    IF FirstMissing(params) # 0
    THEN [status |-> "KeyError", key |-> Subscripted[FirstMissing(params)]]
    ELSE LET impacts      == impacts_of(params, ranges)
             total_impact == sum_values(impacts)
         IN  [status     |-> "returned",
              conversion |-> final_conversion(total_impact),
              impacts    |-> impacts]

\* ------------------------------------------------------------------ state
VARIABLES
    OPTIMAL_RANGES,  \* the module-level table
    params,          \* argument of the latest call of calculate_total_conversion
    result,          \* its outcome
    prev,            \* argument and outcome of the call before it
    value,           \* argument of calculate_parameter_impact
    param_info,      \* its spec argument
    impact,          \* its return value
    pc               \* "idle", "start" (arguments drawn) or "done" (returned)

convVars == <<OPTIMAL_RANGES, params, result, prev>>
impactVars == <<value, param_info, impact, pc>>
vars == <<OPTIMAL_RANGES, params, result, prev, value, param_info, impact, pc>>

NoParams == [n \in {} |-> 0]
NoResult == [status |-> "none"]

\* ------------------------------------------ inputs of the conversion calls
HalfRange(n) == range_size(OPTIMAL_RANGES_TABLE[n]) \div 2
Level(n, l) == OPTIMAL_RANGES_TABLE[n].optimal + l * HalfRange(n)
Levels == (-MaxLevel)..MaxLevel
Uniform(l) == [n \in Names |-> Level(n, l)]
Override(n, l) == [Uniform(0) EXCEPT ![n] = Level(n, l)]
Without(n) == [m \in Names \ {n} |-> Level(m, 0)]

FullSets == {Uniform(l) : l \in Levels}
              \cup {Override(n, l) : n \in Names, l \in Levels}
PartialSets == {Without(n) : n \in Names}
ParamSets == FullSets \cup PartialSets

\* ------------------------------------- inputs of calculate_parameter_impact
TableSpecs == {OPTIMAL_RANGES_TABLE[n] : n \in Names}
OtherSpecs ==
    {Info(1000, 2000, opt, 0, sens, base) :
        opt \in {1000, 1200, 1500, 2000},
        sens \in {50000, 500000, 1000000},
        base \in {0, 1, 40}}
ValidSpecs == TableSpecs \cup OtherSpecs

T2Far == 22000

ValuesFor(info) ==
    {info.optimal + k * (range_size(info) \div 4) : k \in (-MaxStep)..MaxStep}
      \cup {info.min, info.max, info.min - 1, info.max + 1, T2Far}

\* ---------------------------------------------------------------- actions
ConvInit ==
    /\ OPTIMAL_RANGES = OPTIMAL_RANGES_TABLE
    /\ params = NoParams
    /\ result = NoResult
    /\ prev = [params |-> NoParams, result |-> NoResult]

ImpactIdle ==
    /\ value = 0
    /\ param_info = OPTIMAL_RANGES_TABLE["t2"]
    /\ impact = 0
    /\ pc = "idle"

ImpactInit ==
    /\ param_info \in ValidSpecs
    /\ value \in ValuesFor(param_info)
    /\ impact = 0
    /\ pc = "start"

\* One call calculate_total_conversion(p).
CallTotalConversion(p) ==
    /\ prev' = [params |-> params, result |-> result]
    /\ params' = p
    /\ result' = calculate_total_conversion(p, OPTIMAL_RANGES)
    /\ UNCHANGED OPTIMAL_RANGES
    /\ UNCHANGED impactVars

\* One call calculate_parameter_impact(value, param_info).
CallParameterImpact ==
    /\ pc = "start"
    /\ impact' = calculate_parameter_impact(value, param_info)
    /\ pc' = "done"
    /\ UNCHANGED <<value, param_info>>
    /\ UNCHANGED convVars

Init == ConvInit /\ ImpactIdle
Next == \E p \in ParamSets : CallTotalConversion(p)
Spec == Init /\ [][Next]_vars

ImpactSpecInit == ConvInit /\ ImpactInit
ImpactNext == CallParameterImpact
ImpactSpec == ImpactSpecInit /\ [][ImpactNext]_vars

\* ================================================================= claims
Returned == result.status = "returned"
Complete == DOMAIN params = Names
PreClamp == base_conversion + sum_values(result.impacts)
Done == pc = "done"
Dist == Abs(value - param_info.optimal)
Unpenalized == param_info.base_impact * base_effect(value, param_info)
ImpactAtOptimal == calculate_parameter_impact(param_info.optimal, param_info)
\* The specs that differ from param_info in sensitivity only, with a
\* smaller sensitivity.
LessSensitive ==
    {o \in ValidSpecs :
        /\ o.sensitivity < param_info.sensitivity
        /\ [o EXCEPT !.sensitivity = param_info.sensitivity] = param_info}

\* C1: for every complete parameter set, however far outside the windows
\* its values lie, the returned conversion is in [0, 100].
C1_ConversionInRange ==
    (Returned /\ Complete) =>
        (0 <= result.conversion /\ result.conversion <= 100 * S)

\* C1 witness: a complete set with a value outside its window whose
\* unclamped conversion exceeds 100 and is returned as 100.
C1_Witness ==
    /\ Returned /\ Complete
    /\ \E n \in Names : params[n] > OPTIMAL_RANGES[n].max
    /\ PreClamp > 100 * S
    /\ result.conversion = 100 * S

\* C2 (as claimed): every parameter set that omits one of the 12 names
\* fails with a missing-parameter error and returns no result.
C2_MissingParameterFails ==
    (result.status # "none" /\ ~Complete) => result.status = "KeyError"

\* C4 (as claimed): with all 12 parameters at their optimal values the
\* impacts sum to 47.5, the unclamped conversion is 107.5 and 100 is returned.
C4_OptimalSum475 ==
    (Returned /\ params = Uniform(0)) =>
        /\ sum_values(result.impacts) = 475000
        /\ PreClamp = 1075000
        /\ result.conversion = 100 * S

\* C4 (amended): with all 12 parameters at their optimal values the impacts
\* sum to 67.5, the unclamped conversion is 127.5 and 100 is returned.
C4_OptimalSum675 ==
    (Returned /\ params = Uniform(0)) =>
        /\ sum_values(result.impacts) = 675000
        /\ PreClamp = 1275000
        /\ result.conversion = 100 * S

\* C4 witness: the all-optimal call has returned.
C4_Witness == Returned /\ params = Uniform(0) /\ result.impacts["t2"] = 150000

\* C7: an impact depends only on the value supplied for its name in the
\* current call and on the table: two successive calls that agree on a name
\* return the same impact for it whatever the other values are, identical
\* parameter sets give identical results, and the table is never modified.
C7_ImpactsIndependent ==
    /\ OPTIMAL_RANGES = OPTIMAL_RANGES_TABLE
    /\ (params = prev.params => result = prev.result)
    /\ (Returned /\ prev.result.status = "returned") =>
          \A n \in DOMAIN params \cap DOMAIN prev.params :
              params[n] = prev.params[n] =>
                  result.impacts[n] = prev.result.impacts[n]

\* C7 witness: two successive returned calls that agree on t2, away from its
\* optimum, and differ on all the other 11 names.
C7_Witness ==
    /\ Returned /\ prev.result.status = "returned"
    /\ Complete /\ DOMAIN prev.params = Names
    /\ params["t2"] = prev.params["t2"]
    /\ params["t2"] # OPTIMAL_RANGES["t2"].optimal
    /\ \A n \in Names \ {"t2"} : params[n] # prev.params[n]
    /\ result.impacts["t2"] = prev.result.impacts["t2"]

\* C3: for every valid spec and every value, 0 <= impact <= base_impact.
C3_ImpactBounded ==
    Done => (0 <= impact /\ impact <= param_info.base_impact * S)

\* C3 witness: a value outside the window whose penalized impact is positive.
C3_Witness ==
    /\ Done
    /\ value > param_info.max
    /\ Dist * 2 > range_size(param_info)
    /\ impact > 0

\* C5: at the optimal value the impact is half of base_impact.
C5_HalfAtOptimal ==
    (Done /\ value = param_info.optimal) =>
        2 * impact = param_info.base_impact * S

\* C5 witness: a call at an optimal value that is not the window's minimum.
C5_Witness ==
    /\ Done
    /\ value = param_info.optimal
    /\ param_info.optimal > param_info.min
    /\ impact > 0

\* C6 (as claimed): for every valid spec, every value different from optimal
\* has a strictly lower impact than the optimal value.
C6_StrictlyLowerEverywhere ==
    (Done /\ value # param_info.optimal) => impact < ImpactAtOptimal

\* C6 (amended): for every valid spec no value has a higher impact than the
\* optimal value, and for the 12 specs of the table every value different
\* from optimal has a strictly lower one (t2 = 220 against t2 = 200 too).
C6_OptimalIsMaximum ==
    Done =>
        /\ impact <= ImpactAtOptimal
        /\ (param_info \in TableSpecs /\ value # param_info.optimal) =>
              impact < ImpactAtOptimal

\* C6 witness: t2 = 220 under the t2 spec.
C6_Witness ==
    /\ Done
    /\ param_info = OPTIMAL_RANGES_TABLE["t2"]
    /\ value = T2Far
    /\ impact < ImpactAtOptimal

\* C8: the penalty is applied exactly when value < min or value > max; a
\* value equal to min or max gets base_impact * baseEffect unpenalized.
C8_PenaltyOnlyOutside ==
    Done =>
        impact = IF value < param_info.min \/ value > param_info.max
                 THEN MulDiv(Unpenalized, penalty_factor(value, param_info), S)
                 ELSE Unpenalized

\* C8 witness: a value equal to min or max, away from the optimum, with a
\* positive impact that the penalty would have lowered.
C8_Witness ==
    /\ Done
    /\ value \in {param_info.min, param_info.max}
    /\ value # param_info.optimal
    /\ impact > 0
    /\ MulDiv(impact, penalty_factor(value, param_info), S) < impact

\* C9: outside the window the decayed impact is multiplied by
\* 1 - 0.2 * min(|value - optimal| / (max - min), 1), a factor that is never
\* below 0.8 and is 0.8 once the distance reaches the range size.
C9_PenaltyFactor ==
    (Done /\ (value < param_info.min \/ value > param_info.max)) =>
        LET capped == Min2((Dist * S) \div range_size(param_info), S)
            factor == S - (2 * capped) \div 10
        IN  /\ impact = MulDiv(Unpenalized, factor, S)
            /\ factor >= 8000
            /\ (Dist >= range_size(param_info) => factor = 8000)

\* C9 witness: a value farther from the optimum than the range size whose
\* positive impact is the decayed impact times 0.8.
C9_Witness ==
    /\ Done
    /\ Dist > range_size(param_info)
    /\ impact > 0
    /\ impact = (Unpenalized * 8) \div 10

\* C10 (as claimed): of two specs that differ only in sensitivity, the one
\* with the smaller sensitivity has an impact at least as large.
C10_SmallerDecaysSlower ==
    (Done /\ value # param_info.optimal) =>
        \A o \in LessSensitive : calculate_parameter_impact(value, o) >= impact

\* C10 (amended): of two specs that differ only in sensitivity, the one with
\* the larger sensitivity has an impact at least as large.
C10_LargerDecaysSlower ==
    (Done /\ value # param_info.optimal) =>
        \A o \in LessSensitive : calculate_parameter_impact(value, o) <= impact

\* C10 witness: a less sensitive spec with a strictly smaller impact.
C10_Witness ==
    /\ Done
    /\ value # param_info.optimal
    /\ \E o \in LessSensitive : calculate_parameter_impact(value, o) < impact

====
